---- MODULE Spec2Model ----
(***************************************************************************)
(* Model of SSHTun.forward (forward.go): one forwarded connection.  The    *)
(* coordinator (the goroutine running forward) emits the lifecycle states, *)
(* dials the opposite side and starts two copy goroutines through an       *)
(* errgroup.Group; the goroutines share the variable err of forward.go:53. *)
(* The peers of the two connections and the owner of tun.ctx are the       *)
(* environment.                                                            *)
(***************************************************************************)
EXTENDS Integers, Sequences, FiniteSets, TLC

VARIABLES
    forwardType,        \* tun.forwardType: "Local" or "Remote"
    tunneledConnState,  \* tun.tunneledConnState: "nil" or "set" (the observer callback)
    pc,                 \* position of the goroutine running forward
    observed,           \* the states the observer callback has received, in order
    conns,              \* fromConn and toConn: state, Close calls made by forward, peer
    sent,               \* chunks each peer has sent so far
    err,                \* the variable err of forward.go:53, shared with both goroutines
    tasks,              \* the two goroutines of errGroup.Go
    errGroup,           \* errgroup.Group: first error, goroutines not yet done, Go calls
    retOrder,           \* the goroutines in the order they returned
    connCancelled,      \* connCancel has been called
    tunCtxDone,         \* tun.ctx is done
    dials,              \* the Dial calls made: dialer and endpoint, in order
    ctxChecks           \* what each evaluation of the select of line 123 found:
                        \* TRUE when tun.ctx was done

vars == <<forwardType, tunneledConnState, pc, observed, conns, sent, err, tasks,
          errGroup, retOrder, connCancelled, tunCtxDone, dials, ctxChecks>>

\* Chunks of data each peer may send during one call.
MaxChunks == 1

\* The two values of tun.forwardType that forward handles (lines 40, 45, 55, 67).
ForwardTypes == {"Local", "Remote"}
Conns == {"fromConn", "toConn"}
Tasks == {"A", "B"}

\* Task A is the goroutine of lines 93-104: io.Copy(toConn, fromConn).
\* Task B is the goroutine of lines 106-117: io.Copy(fromConn, toConn).
Src(t) == IF t = "A" THEN "fromConn" ELSE "toConn"
\* Dst with line 116 closing (and line 108 writing) toConn, as line 103 does.
DstSame(t) == "toConn"

Dst(t) == IF t = "A" THEN "toConn" ELSE "fromConn"

----------------------------------------------------------------------------
\* Error values.  Every error is a record of one shape.

Nil == [kind |-> "nil", label |-> "", by |-> "", cause |-> ""]

\* The error io.Copy returned in goroutine t.
IOErr(t) == [kind |-> "io", label |-> "", by |-> t, cause |-> ""]

\* The error Close returned on connection c, called by goroutine t.
CloseErr(t, c) == [kind |-> "close", label |-> "", by |-> t, cause |-> c]

\* The error of a failed Dial.
DialErr == [kind |-> "dialcause", label |-> "", by |-> "", cause |-> ""]

\* fmt.Errorf("remote dial ..."/"local dial ...", err)
DialFailedError(ft, e) ==
    [kind |-> "dial",
     label |-> IF ft = "Local" THEN "remote dial failed" ELSE "local dial failed",
     by |-> "", cause |-> e.kind]

\* The text of the labels of lines 98, 100, 111 and 113.
CopyLabel(t, ft) ==
    IF t = "A"
    THEN IF ft = "Local" THEN "failed copying bytes from remote to local"
                         ELSE "failed copying bytes from local to remote"
    ELSE IF ft = "Local" THEN "failed copying bytes from local to remote"
                         ELSE "failed copying bytes from remote to local"

\* fmt.Errorf(label + ": %w", err) in goroutine t, err being the value read.
CopyError(t, ft, e) ==
    [kind |-> "copy", label |-> CopyLabel(t, ft), by |-> t, cause |-> e.by]

----------------------------------------------------------------------------
\* TunneledConnState values.  name is the row of the state table the emitting
\* statement stands for; it is not a field of the Go struct.

AcceptedState ==
    [name |-> "Accepted", Info |-> "accepted", Error |-> Nil,
     Ready |-> FALSE, Closed |-> FALSE]

DialFailedState(e) ==
    [name |-> "DialFailed", Info |-> "", Error |-> e,
     Ready |-> FALSE, Closed |-> FALSE]

\* EstablishedState with Ready left at its zero value.
EstablishedNotReady ==
    [name |-> "Established", Info |-> "connection established", Error |-> Nil,
     Ready |-> FALSE, Closed |-> FALSE]

EstablishedState ==
    [name |-> "Established", Info |-> "connection established", Error |-> Nil,
     Ready |-> TRUE, Closed |-> FALSE]

ClosedWithErrorState(e) ==
    [name |-> "ClosedWithError", Info |-> "", Error |-> e,
     Ready |-> FALSE, Closed |-> TRUE]

\* ClosedFinalState with Closed left at its zero value.
ClosedFinalNotClosed ==
    [name |-> "ClosedFinal", Info |-> "connection closed", Error |-> Nil,
     Ready |-> FALSE, Closed |-> FALSE]

ClosedFinalState ==
    [name |-> "ClosedFinal", Info |-> "connection closed", Error |-> Nil,
     Ready |-> FALSE, Closed |-> TRUE]

\* tun.tunneledState(state): the callback is invoked only when it is set.
tunneledState(state) ==
    IF tunneledConnState # "nil" THEN Append(observed, state) ELSE observed

----------------------------------------------------------------------------
Init ==
    /\ forwardType \in ForwardTypes
    /\ tunneledConnState \in {"nil", "set"}
    /\ pc = "accept"
    /\ observed = <<>>
    /\ conns = [c \in Conns |->
                  [st |-> IF c = "fromConn" THEN "open" ELSE "nil",
                   closes |-> 0, peer |-> "silent"]]
    /\ sent = [c \in Conns |-> 0]
    /\ err = Nil
    /\ tasks = [t \in Tasks |->
                  [pc |-> "idle", copyRes |-> Nil, ret |-> Nil, ctxAtCopy |-> FALSE]]
    /\ errGroup = [err |-> Nil, running |-> 0, spawned |-> 0]
    /\ retOrder = <<>>
    /\ connCancelled = FALSE
    /\ tunCtxDone = FALSE
    /\ dials = <<>>
    /\ ctxChecks = <<>>

----------------------------------------------------------------------------
\* The coordinator: the goroutine running forward.

\* Lines 40-50: the accepted state.
Accept ==
    /\ pc = "accept"
    /\ observed' = tunneledState(AcceptedState)
    /\ pc' = "dial"
    /\ UNCHANGED <<forwardType, tunneledConnState, conns, sent, err, tasks, errGroup,
                   retOrder, connCancelled, tunCtxDone, dials, ctxChecks>>

\* Dialer with the two dialers exchanged.
DialerSwapped(ft) ==
    IF ft = "Local" THEN [via |-> "net.Dial", endpoint |-> "local"]
                    ELSE [via |-> "sshClient.Dial", endpoint |-> "remote"]

\* Lines 55-56 and 67-68: the dialer and the endpoint dialed for forward type ft.
Dialer(ft) ==
    IF ft = "Local" THEN [via |-> "sshClient.Dial", endpoint |-> "remote"]
                    ELSE [via |-> "net.Dial", endpoint |-> "local"]

\* Lines 56 and 68: toConn, err = Dial(...), succeeding.
DialOk ==
    /\ pc = "dial"
    /\ dials' = Append(dials, Dialer(forwardType))
    /\ err' = Nil
    /\ conns' = [conns EXCEPT !["toConn"].st = "open"]
    /\ pc' = "established"
    /\ UNCHANGED <<forwardType, tunneledConnState, observed, sent, tasks, errGroup,
                   retOrder, connCancelled, tunCtxDone, ctxChecks>>

\* DialFail without the fromConn.Close() of lines 63 and 75.
DialFailNoClose ==
    /\ pc = "dial"
    /\ dials' = Append(dials, Dialer(forwardType))
    /\ err' = DialErr
    /\ observed' = tunneledState(DialFailedState(DialFailedError(forwardType, DialErr)))
    /\ pc' = "done"
    /\ UNCHANGED <<forwardType, tunneledConnState, conns, sent, tasks, errGroup,
                   retOrder, connCancelled, tunCtxDone, ctxChecks>>

\* Lines 56-65 and 68-77: the Dial fails; the state is emitted, fromConn is
\* closed and forward returns.
DialFail ==
    /\ pc = "dial"
    /\ dials' = Append(dials, Dialer(forwardType))
    /\ err' = DialErr
    /\ observed' = tunneledState(DialFailedState(DialFailedError(forwardType, DialErr)))
    /\ conns' = [conns EXCEPT !["fromConn"].st = "closed",
                              !["fromConn"].closes = @ + 1]
    /\ pc' = "done"
    /\ UNCHANGED <<forwardType, tunneledConnState, sent, tasks, errGroup,
                   retOrder, connCancelled, tunCtxDone, ctxChecks>>

\* Lines 80-88: the established state.
Established ==
    /\ pc = "established"
    /\ observed' = tunneledState(EstablishedState)
    /\ pc' = "goA"
    /\ UNCHANGED <<forwardType, tunneledConnState, conns, sent, err, tasks, errGroup,
                   retOrder, connCancelled, tunCtxDone, dials, ctxChecks>>

\* Lines 90-93 and 106: errGroup.Go starts goroutine t.
Go(t) ==
    /\ pc = IF t = "A" THEN "goA" ELSE "goB"
    /\ tasks' = [tasks EXCEPT ![t].pc = "copy"]
    /\ errGroup' = [errGroup EXCEPT !.running = @ + 1, !.spawned = @ + 1]
    /\ pc' = IF t = "A" THEN "goB" ELSE "wait"
    /\ UNCHANGED <<forwardType, tunneledConnState, observed, conns, sent, err,
                   retOrder, connCancelled, tunCtxDone, dials, ctxChecks>>

\* A Wait that returns as soon as one goroutine is done.
WaitReadyAny == errGroup.running <= 1

\* errgroup.Group.Wait returns once every goroutine started by Go is done.
WaitReady == errGroup.running = 0

\* Line 119: err = errGroup.Wait().
Wait ==
    /\ pc = "wait"
    /\ WaitReady
    /\ err' = errGroup.err
    /\ pc' = "ctxwait"
    /\ UNCHANGED <<forwardType, tunneledConnState, observed, conns, sent, tasks,
                   errGroup, retOrder, connCancelled, tunCtxDone, dials, ctxChecks>>

\* connCtx = context.WithCancel(tun.ctx): done when cancelled or when tun.ctx is.
connCtxDone == connCancelled \/ tunCtxDone

\* Line 121: <-connCtx.Done().
CtxWait ==
    /\ pc = "ctxwait"
    /\ connCtxDone
    /\ pc' = "select"
    /\ UNCHANGED <<forwardType, tunneledConnState, observed, conns, sent, err, tasks,
                   errGroup, retOrder, connCancelled, tunCtxDone, dials, ctxChecks>>

\* SelectEmit without the case on tun.ctx.Done().
SelectEmitIgnoringCtx ==
    IF err # Nil THEN tunneledState(ClosedWithErrorState(err)) ELSE observed

\* SelectEmit without the test err != nil of line 126.
SelectEmitUnchecked ==
    IF tunCtxDone THEN observed ELSE tunneledState(ClosedWithErrorState(err))

\* SelectEmit suppressing by whether tun.ctx was done when a copy failed.
SelectEmitByErrorTime ==
    IF \E t \in Tasks : tasks[t].copyRes # Nil /\ tasks[t].ctxAtCopy THEN observed
    ELSE IF err # Nil THEN tunneledState(ClosedWithErrorState(err))
    ELSE observed

\* Lines 123-133: what the select emits.
SelectEmit ==
    IF tunCtxDone THEN observed
    ELSE IF err # Nil THEN tunneledState(ClosedWithErrorState(err))
    ELSE observed

\* Lines 123-133: the select on tun.ctx.Done().
Select ==
    /\ pc = "select"
    /\ ctxChecks' = Append(ctxChecks, tunCtxDone)
    /\ observed' = SelectEmit
    /\ pc' = "final"
    /\ UNCHANGED <<forwardType, tunneledConnState, conns, sent, err, tasks, errGroup,
                   retOrder, connCancelled, tunCtxDone, dials>>

\* Final returning without the state of lines 135-140.
FinalNoEmit ==
    /\ pc = "final"
    /\ pc' = "done"
    /\ UNCHANGED <<forwardType, tunneledConnState, observed, conns, sent, err, tasks,
                   errGroup, retOrder, connCancelled, tunCtxDone, dials, ctxChecks>>

\* Lines 135-141: the final state, and forward returns.
Final ==
    /\ pc = "final"
    /\ observed' = tunneledState(ClosedFinalState)
    /\ pc' = "done"
    /\ UNCHANGED <<forwardType, tunneledConnState, conns, sent, err, tasks, errGroup,
                   retOrder, connCancelled, tunCtxDone, dials, ctxChecks>>

----------------------------------------------------------------------------
\* The copy goroutines.

Closed(c) == conns[c].st = "closed"

\* A Write on connection c fails: c was closed by forward or reset by its peer.
WriteFails(c) == Closed(c) \/ conns[c].peer = "reset"

\* io.Copy(dst, src) can return nil: Read of src returned io.EOF.  A Read of a
\* connection closed by forward returns io.EOF or an error, by the kind of
\* connection.
CopyCanEOF(t) ==
    \/ ~Closed(Src(t)) /\ conns[Src(t)].peer = "eof"
    \/ Closed(Src(t))

\* CopyCanFail for a copy that gives up when connCtx is done.
CopyCanFailOrCancelled(t) ==
    \/ connCtxDone
    \/ Closed(Src(t))
    \/ conns[Src(t)].peer = "reset"
    \/ conns[Src(t)].peer = "data" /\ WriteFails(Dst(t))

\* io.Copy(dst, src) can return an error: Read of src failed, or a chunk was
\* read and the Write to dst failed.
CopyCanFail(t) ==
    \/ Closed(Src(t))
    \/ conns[Src(t)].peer = "reset"
    \/ conns[Src(t)].peer = "data" /\ WriteFails(Dst(t))

\* io.Copy moves one chunk and goes on.
CopyChunk(t) ==
    /\ tasks[t].pc = "copy"
    /\ ~Closed(Src(t))
    /\ conns[Src(t)].peer = "data"
    /\ ~WriteFails(Dst(t))
    /\ conns' = [conns EXCEPT ![Src(t)].peer = "silent"]
    /\ UNCHANGED <<forwardType, tunneledConnState, pc, observed, sent, err, tasks,
                   errGroup, retOrder, connCancelled, tunCtxDone, dials, ctxChecks>>

\* Lines 95 and 108: _, err = io.Copy(...) returns r and r is stored in the
\* shared variable err.
\* Both goroutines write and read that one variable without synchronisation:
\* the write of one may land between the write and the read of the other.
CopyReturn(t, r) ==
    /\ tasks[t].pc = "copy"
    /\ \/ r = Nil /\ CopyCanEOF(t)
       \/ r = IOErr(t) /\ CopyCanFail(t)
    /\ err' = r
    /\ tasks' = [tasks EXCEPT ![t].pc = "check", ![t].copyRes = r,
                              ![t].ctxAtCopy = tunCtxDone]
    /\ UNCHANGED <<forwardType, tunneledConnState, pc, observed, conns, sent,
                   errGroup, retOrder, connCancelled, tunCtxDone, dials, ctxChecks>>

\* GroupDone keeping the last non-nil error instead of the first.
GroupDoneLastWins(g, e) ==
    [g EXCEPT !.err = IF e # Nil THEN e ELSE g.err, !.running = @ - 1]

\* errgroup.Group.Go's wrapper: the first non-nil error is kept (errOnce),
\* and the goroutine is done.
GroupDone(g, e) ==
    [g EXCEPT !.err = IF g.err = Nil THEN e ELSE g.err, !.running = @ - 1]

\* ReturnCopyError without the deferred connCancel of lines 94 and 107.
ReturnCopyErrorNoCancel(t) ==
    /\ tasks[t].pc = "check"
    /\ err # Nil
    /\ tasks' = [tasks EXCEPT ![t].pc = "done",
                              ![t].ret = CopyError(t, forwardType, err)]
    /\ errGroup' = GroupDone(errGroup, CopyError(t, forwardType, err))
    /\ retOrder' = Append(retOrder, t)
    /\ UNCHANGED <<forwardType, tunneledConnState, pc, observed, conns, sent, err,
                   connCancelled, tunCtxDone, dials, ctxChecks>>

\* Lines 96-102 and 109-115: the shared err is read and is not nil; the
\* goroutine returns the labelled error.  The deferred connCancel runs.
ReturnCopyError(t) ==
    /\ tasks[t].pc = "check"
    /\ err # Nil
    /\ tasks' = [tasks EXCEPT ![t].pc = "done",
                              ![t].ret = CopyError(t, forwardType, err)]
    /\ errGroup' = GroupDone(errGroup, CopyError(t, forwardType, err))
    /\ retOrder' = Append(retOrder, t)
    /\ connCancelled' = TRUE
    /\ UNCHANGED <<forwardType, tunneledConnState, pc, observed, conns, sent, err,
                   tunCtxDone, dials, ctxChecks>>

\* Lines 103 and 116: the shared err is read and is nil; the goroutine closes
\* the connection it wrote to and returns what Close returned.
ReturnClose(t, r) ==
    /\ tasks[t].pc = "check"
    /\ err = Nil
    /\ r \in {Nil, CloseErr(t, Dst(t))}
    /\ conns' = [conns EXCEPT ![Dst(t)].st = "closed", ![Dst(t)].closes = @ + 1]
    /\ tasks' = [tasks EXCEPT ![t].pc = "done", ![t].ret = r]
    /\ errGroup' = GroupDone(errGroup, r)
    /\ retOrder' = Append(retOrder, t)
    /\ connCancelled' = TRUE
    /\ UNCHANGED <<forwardType, tunneledConnState, pc, observed, sent, err,
                   tunCtxDone, dials, ctxChecks>>

----------------------------------------------------------------------------
\* The environment.

InCall == pc # "done"

\* The peer of connection c sends a chunk.
PeerSend(c) ==
    /\ InCall
    /\ conns[c].st = "open"
    /\ conns[c].peer = "silent"
    /\ sent[c] < MaxChunks
    /\ sent' = [sent EXCEPT ![c] = @ + 1]
    /\ conns' = [conns EXCEPT ![c].peer = "data"]
    /\ UNCHANGED <<forwardType, tunneledConnState, pc, observed, err, tasks, errGroup,
                   retOrder, connCancelled, tunCtxDone, dials, ctxChecks>>

\* The peer of connection c ends its stream cleanly.
PeerEOF(c) ==
    /\ InCall
    /\ conns[c].st = "open"
    /\ conns[c].peer = "silent"
    /\ conns' = [conns EXCEPT ![c].peer = "eof"]
    /\ UNCHANGED <<forwardType, tunneledConnState, pc, observed, sent, err, tasks,
                   errGroup, retOrder, connCancelled, tunCtxDone, dials, ctxChecks>>

\* The connection c breaks: Reads and Writes on it fail from now on.
PeerReset(c) ==
    /\ InCall
    /\ conns[c].st = "open"
    /\ conns[c].peer # "reset"
    /\ conns' = [conns EXCEPT ![c].peer = "reset"]
    /\ UNCHANGED <<forwardType, tunneledConnState, pc, observed, sent, err, tasks,
                   errGroup, retOrder, connCancelled, tunCtxDone, dials, ctxChecks>>

\* The owner of the tunnel cancels tun.ctx.
CancelTun ==
    /\ InCall
    /\ ~tunCtxDone
    /\ tunCtxDone' = TRUE
    /\ UNCHANGED <<forwardType, tunneledConnState, pc, observed, conns, sent, err,
                   tasks, errGroup, retOrder, connCancelled, dials, ctxChecks>>

----------------------------------------------------------------------------
GoA == Go("A")
GoB == Go("B")
CopyChunkStep == \E t \in Tasks : CopyChunk(t)
CopyEOF == \E t \in Tasks : CopyReturn(t, Nil)
CopyFail == \E t \in Tasks : CopyReturn(t, IOErr(t))
ReturnCopyErrorStep == \E t \in Tasks : ReturnCopyError(t)
ReturnCloseOk == \E t \in Tasks : ReturnClose(t, Nil)
ReturnCloseErr == \E t \in Tasks : ReturnClose(t, CloseErr(t, Dst(t)))
PeerSendStep == \E c \in Conns : PeerSend(c)
PeerEOFStep == \E c \in Conns : PeerEOF(c)
PeerResetStep == \E c \in Conns : PeerReset(c)

\* The steps of forward and of its two goroutines.
ProgramStep ==
    \/ Accept \/ DialOk \/ DialFail \/ Established \/ GoA \/ GoB
    \/ Wait \/ CtxWait \/ Select \/ Final
    \/ CopyChunkStep \/ CopyEOF \/ CopyFail
    \/ ReturnCopyErrorStep \/ ReturnCloseOk \/ ReturnCloseErr

EnvStep == PeerSendStep \/ PeerEOFStep \/ PeerResetStep \/ CancelTun

Next == ProgramStep \/ EnvStep

Spec == Init /\ [][Next]_vars

\* The Go scheduler runs every runnable goroutine; the peers and the owner of
\* tun.ctx owe nothing.
FairSpec == Spec /\ WF_vars(ProgramStep)

----------------------------------------------------------------------------
\* Vocabulary of the properties.

Observer == tunneledConnState = "set"
Returned == pc = "done"
DialSucceeded == conns["toConn"].st # "nil"
DialFailedPath == Returned /\ ~DialSucceeded
Names == [i \in DOMAIN observed |-> observed[i].name]
Last(s) == s[Len(s)]
IsPrefix(s, u) == Len(s) <= Len(u) /\ \A i \in DOMAIN s : s[i] = u[i]
Running(t) == tasks[t].pc \in {"copy", "check"}
ErrorStates == {i \in DOMAIN observed : observed[i].Error # Nil}
FinalStates == {i \in DOMAIN observed : observed[i].name = "ClosedFinal"}
CleanSequence == <<"Accepted", "Established", "ClosedFinal">>
ErrorSequence == <<"Accepted", "Established", "ClosedWithError", "ClosedFinal">>

----------------------------------------------------------------------------
\* C1: after a successful dial the observer receives the states in the order
\* Accepted, Established, [ClosedWithError,] ClosedFinal: at every moment what
\* it has received is a prefix of one of the two sequences, and when forward
\* has returned it is exactly one of them.
C1_SequenceAfterDial ==
    (Observer /\ DialSucceeded) =>
        /\ IsPrefix(Names, CleanSequence) \/ IsPrefix(Names, ErrorSequence)
        /\ Returned => Names \in {CleanSequence, ErrorSequence}

\* forward has returned after both goroutines failed, task B first, and the
\* observer has the four states.
C1_Witness ==
    /\ Observer /\ Returned /\ Names = ErrorSequence
    /\ retOrder = <<"B", "A">> /\ tunCtxDone

\* C2: when the dial fails the observer has exactly Accepted, DialFailed (error
\* set, not ready, not closed), fromConn is closed and no goroutine was started.
C2_DialFailure ==
    DialFailedPath =>
        /\ Observer =>
              /\ Names = <<"Accepted", "DialFailed">>
              /\ observed[2].Error # Nil
              /\ ~observed[2].Ready /\ ~observed[2].Closed
        /\ Closed("fromConn")
        /\ errGroup.spawned = 0
        /\ \A t \in Tasks : tasks[t].pc = "idle"

\* The dial failed for forward type Remote and forward has returned.
C2_Witness ==
    /\ DialFailedPath /\ Observer /\ forwardType = "Remote"
    /\ Len(observed) = 2 /\ observed[2].Error.label = "local dial failed"

\* C3 as stated: when forward returns after a successful dial, both
\* connections have been closed by forward, each exactly once.
C3_BothClosedOnce ==
    (Returned /\ DialSucceeded) =>
        \A c \in Conns : Closed(c) /\ conns[c].closes = 1

\* C4 as stated: once a copy goroutine has finished, forward eventually
\* returns (so the other goroutine finishes too), whatever the peers do.
C4_EventuallyReturns ==
    (\E t \in Tasks : tasks[t].pc = "done") ~> Returned

\* C5: when tun.ctx was done at the moment a copy failed, the observer never
\* receives a state with an error, and when forward has returned it has
\* received one ClosedFinal (closed, not ready, no error), as the last state.
C5_Suppression ==
    (Observer /\ \E t \in Tasks : tasks[t].copyRes # Nil /\ tasks[t].ctxAtCopy) =>
        /\ ErrorStates = {}
        /\ Returned =>
              /\ Cardinality(FinalStates) = 1
              /\ Last(observed) = ClosedFinalState
              /\ Last(observed).Closed /\ ~Last(observed).Ready
              /\ Last(observed).Error = Nil

\* forward has returned, a copy failed after tun.ctx was cancelled, and the
\* error group had retained an error.
C5_Witness ==
    /\ Observer /\ Returned /\ errGroup.err # Nil /\ errGroup.err.kind = "copy"
    /\ \E t \in Tasks : tasks[t].copyRes # Nil /\ tasks[t].ctxAtCopy

\* C6 as stated: on every path on which forward returns, the dial-failure
\* path included, the last state the observer received has closed=true.
C6_LastClosedOnEveryPath ==
    (Observer /\ Returned) => Len(observed) > 0 /\ Last(observed).Closed

\* C6 amended: when forward returns after a successful dial, the last state
\* the observer received has closed=true; on the dial-failure path the last
\* state is DialFailed, with closed=false.
C6_LastClosedAfterDial ==
    (Observer /\ Returned) =>
        /\ Len(observed) > 0
        /\ Last(observed).Closed <=> DialSucceeded

\* forward has returned after a successful dial, with no error retained.
C6_Witness ==
    /\ Observer /\ Returned /\ DialSucceeded /\ errGroup.err = Nil
    /\ Last(observed).Closed

\* C7 as stated: when some goroutine's copy failed and tun.ctx is not done at
\* the select, ClosedWithError is delivered (tun.ctx never goes back, so not
\* done after the select is not done at the select).
C7_CopyErrorReported ==
    (/\ Observer /\ pc \in {"final", "done"} /\ ~tunCtxDone
     /\ \E t \in Tasks : tasks[t].copyRes # Nil) =>
        \E i \in DOMAIN observed : observed[i].name = "ClosedWithError"

\* The goroutines that have returned an error, in the order they returned.
Failed == SelectSeq(retOrder, LAMBDA t : tasks[t].ret # Nil)

\* C8: at most one state with an error is delivered, and the error of a
\* ClosedWithError state is the one returned by the goroutine that returned
\* an error first.
C8_FirstErrorOnly ==
    /\ Cardinality(ErrorStates) <= 1
    /\ \A i \in DOMAIN observed :
          observed[i].name = "ClosedWithError" =>
              /\ Failed # <<>>
              /\ observed[i].Error = tasks[Failed[1]].ret

\* Both goroutines returned an error, B before A, and B's was delivered.
C8_Witness ==
    /\ Observer /\ Returned /\ Failed = <<"B", "A">>
    /\ \E i \in DOMAIN observed :
          observed[i].name = "ClosedWithError" /\ observed[i].Error.by = "B"

\* The (ready, closed, error set) triples of the state table.
StateTable ==
    [Accepted |-> <<FALSE, FALSE, FALSE>>,
     DialFailed |-> <<FALSE, FALSE, TRUE>>,
     Established |-> <<TRUE, FALSE, FALSE>>,
     ClosedWithError |-> <<FALSE, TRUE, TRUE>>,
     ClosedFinal |-> <<FALSE, TRUE, FALSE>>]

\* C9: every delivered state has the triple of its row; ready is true only
\* in Established, closed only in ClosedWithError and ClosedFinal, never both.
C9_StateFields ==
    \A i \in DOMAIN observed :
        LET s == observed[i] IN
        /\ <<s.Ready, s.Closed, s.Error # Nil>> = StateTable[s.name]
        /\ s.Ready => s.name = "Established"
        /\ s.Closed => s.name \in {"ClosedWithError", "ClosedFinal"}
        /\ ~(s.Ready /\ s.Closed)

\* All five kinds of state have been delivered across the two paths: here the
\* four of the error path.
C9_Witness ==
    /\ Observer /\ Returned /\ Names = ErrorSequence
    /\ observed[3].Error.kind = "close"

\* C10: while a copy goroutine runs, forward is at errGroup.Go or at
\* errGroup.Wait and no closed state has been delivered; at most two
\* goroutines are started, exactly two once both Go calls are made, and none
\* runs after forward has returned.
C10_WaitsForBoth ==
    /\ (\E t \in Tasks : Running(t)) =>
          /\ pc \in {"goB", "wait"}
          /\ \A i \in DOMAIN observed : ~observed[i].Closed
    /\ errGroup.spawned <= 2
    /\ (DialSucceeded /\ pc \in {"wait", "ctxwait", "select", "final", "done"}) =>
          errGroup.spawned = 2
    /\ Returned => \A t \in Tasks : ~Running(t)

\* forward has returned with both goroutines started and done, one of them
\* long after the other (its peer sent data in between).
C10_Witness ==
    /\ Returned /\ errGroup.spawned = 2 /\ Observer
    /\ \A t \in Tasks : tasks[t].pc = "done"
    /\ sent["toConn"] > 0

----------------------------------------------------------------------------
\* Goroutine t has returned after calling Close on the connection it wrote to
\* (lines 103, 116); otherwise it returned the labelled error.
Done(t) == tasks[t].pc = "done"
TookClose(t) == Done(t) /\ tasks[t].ret.kind # "copy"
TookError(t) == Done(t) /\ tasks[t].ret.kind = "copy"

\* C11 as stated: a goroutine that has finished, by EOF or by error, has
\* closed the connection it copied to, which is the one the other reads from.
C11_CrossCloseOnEveryExit ==
    \A t \in Tasks : Done(t) => Closed(Dst(t))

\* C12 as stated: no goroutine observes the other's copy result, so the value
\* a finished goroutine read from err at line 96/109 is the result of its own
\* io.Copy: it returned the labelled error with its own error as the cause,
\* or it went on to Close after its own copy returned nil.
C12_ReadsOwnCopyResult ==
    \A t \in Tasks :
        /\ TookError(t) => tasks[t].ret.cause = t /\ tasks[t].copyRes = IOErr(t)
        /\ TookClose(t) => tasks[t].copyRes = Nil

\* C13 as stated: a goroutine whose own io.Copy ended by EOF returns no
\* labelled copy error (with Close succeeding it returns nil), and one that
\* returns a labelled copy error had its own copy fail.
C13_CleanEOFIsNoError ==
    \A t \in Tasks :
        (Done(t) /\ tasks[t].copyRes = Nil) => tasks[t].ret.kind \in {"nil", "close"}

\* Both goroutines have finished and the io.Copy of each returned nil.
BothEOF == \A t \in Tasks : Done(t) /\ tasks[t].copyRes = Nil

ClaimedLabel(t, ft) ==
    IF (t = "A") = (ft = "Local")
    THEN "failed copying bytes from local to remote"
    ELSE "failed copying bytes from remote to local"

\* C15 as stated: the labelled error a goroutine returns names the direction
\* of that goroutine's copy.
C15_LabelNamesDirection ==
    \A t \in Tasks :
        TookError(t) => tasks[t].ret.label = ClaimedLabel(t, forwardType)

\* C16: once a goroutine has finished, by whichever exit, connCancel has been
\* called; so when errGroup.Wait has returned connCtx is done and the receive
\* of line 121 does not block.
C16_ConnCtxDoneAfterWait ==
    /\ (\E t \in Tasks : Done(t)) => connCancelled
    /\ pc \in {"ctxwait", "select", "final"} => connCancelled /\ connCtxDone
    /\ pc = "ctxwait" => ENABLED CtxWait

\* forward is at line 121 with tun.ctx not cancelled, one goroutine having
\* returned the labelled copy error and the other the error of Close.
C16_Witness ==
    /\ pc = "ctxwait" /\ ~tunCtxDone /\ connCtxDone
    /\ TookError("A") /\ tasks["B"].ret.kind = "close"

\* The io.Copy of goroutine t is blocked in Read: its source is open and its
\* peer has nothing to deliver.
BlockedInRead(t) ==
    /\ tasks[t].pc = "copy"
    /\ conns[Src(t)].st = "open"
    /\ conns[Src(t)].peer = "silent"

\* C17: with tun.ctx cancelled while a goroutine runs, a copy blocked in Read
\* stays blocked, forward stays at errGroup.Go or errGroup.Wait and the
\* observer has Accepted and Established only; the select on tun.ctx.Done() is
\* evaluated at most once, only after both goroutines are done, and exactly
\* once by the time forward returns after a successful dial.
C17_CancelChangesNothing ==
    /\ \A t \in Tasks :
          (tunCtxDone /\ BlockedInRead(t)) =>
              ~ENABLED (CopyChunk(t) \/ CopyReturn(t, Nil) \/ CopyReturn(t, IOErr(t)))
    /\ (tunCtxDone /\ \E t \in Tasks : Running(t)) =>
          /\ pc \in {"goB", "wait"}
          /\ Observer => Names = <<"Accepted", "Established">>
    /\ Len(ctxChecks) <= 1
    /\ Len(ctxChecks) = 1 => \A t \in Tasks : Done(t)
    /\ (Returned /\ DialSucceeded) => Len(ctxChecks) = 1

\* tun.ctx is cancelled, task A has finished, task B is blocked reading the
\* open, silent toConn and forward is in errGroup.Wait.
C17_Witness ==
    /\ tunCtxDone /\ pc = "wait" /\ Observer
    /\ Done("A") /\ BlockedInRead("B")
    /\ ~ENABLED Wait

\* C18: at most one Dial is made and none is repeated after a failure; it is
\* made when the observer has received Accepted and nothing else, every later
\* state follows it, and it goes through tun.sshClient to the remote endpoint
\* for Local and through net.Dial to the local endpoint for Remote.
C18_OneDial ==
    /\ Len(dials) <= 1
    /\ pc \in {"accept", "dial"} <=> dials = <<>>
    /\ (Observer /\ pc = "dial") => Names = <<"Accepted">>
    /\ (Observer /\ Len(observed) >= 2) => Len(dials) = 1
    /\ Len(dials) = 1 =>
          /\ Observer => Len(observed) >= 1 /\ observed[1].name = "Accepted"
          /\ forwardType = "Local" =>
                dials[1] = [via |-> "sshClient.Dial", endpoint |-> "remote"]
          /\ forwardType = "Remote" =>
                dials[1] = [via |-> "net.Dial", endpoint |-> "local"]

\* The dial failed for forward type Local and forward has returned with the
\* one Dial made.
C18_Witness ==
    /\ DialFailedPath /\ Observer /\ forwardType = "Local"
    /\ dials = <<[via |-> "sshClient.Dial", endpoint |-> "remote"]>>
    /\ Names = <<"Accepted", "DialFailed">>

\* C19: forward calls Close at most once on each connection: on toConn exactly
\* when task A took its Close branch, on fromConn exactly when task B took its
\* Close branch or the dial failed, and after a failed dial no goroutine exists.
C19_CloseAtMostOnce ==
    /\ \A c \in Conns : conns[c].closes <= 1 /\ (Closed(c) <=> conns[c].closes = 1)
    /\ conns["toConn"].closes = 1 <=> TookClose("A")
    /\ conns["fromConn"].closes = 1 <=> (DialFailedPath \/ TookClose("B"))
    /\ DialFailedPath => \A t \in Tasks : tasks[t].pc = "idle"

\* forward has returned after a successful dial with each goroutine having
\* closed its connection once.
C19_Witness ==
    /\ Returned /\ DialSucceeded
    /\ TookClose("A") /\ TookClose("B")
    /\ \A c \in Conns : conns[c].closes = 1

\* C20: once the select of line 123 has been evaluated, an error state has
\* been delivered exactly when the error group retained an error and tun.ctx
\* was not done at that evaluation, whenever the error occurred; the state
\* delivered carries the retained error.
C20_ReportDependsOnCheckOnly ==
    (Observer /\ DialSucceeded /\ pc \in {"final", "done"}) =>
        /\ Len(ctxChecks) = 1
        /\ ErrorStates # {} <=> (errGroup.err # Nil /\ ~ctxChecks[1])
        /\ ErrorStates # {} => observed[3] = ClosedWithErrorState(errGroup.err)

\* Both copies returned while tun.ctx was not cancelled, one of them failing
\* and its error retained; tun.ctx was cancelled before the select, and
\* forward has returned with no error state delivered.
C20_Witness ==
    /\ Observer /\ Returned /\ DialSucceeded
    /\ \A t \in Tasks : ~tasks[t].ctxAtCopy
    /\ \E t \in Tasks : tasks[t].copyRes # Nil /\ TookError(t)
    /\ errGroup.err # Nil /\ ctxChecks = <<TRUE>>
    /\ ErrorStates = {}

====
